---- MODULE Spec2Model ----
(***************************************************************************)
(* Model of weather.py: Fahrenheit -> Celsius conversion, mean, last-      *)
(* occurrence minimum / maximum, date formatting and the two report        *)
(* builders (generate_summary, generate_daily_summary).                    *)
(*                                                                         *)
(* Python floats are IEEE-754 binary64 numbers.  They are modelled exactly:*)
(* a float is a record [s, m, e] with sign s (0 or 1), a significand m of  *)
(* MantBits bits (most significant first, leading bit 1; <<>> for zero) and*)
(* the exponent e of the last bit, so that the value is (-1)^s * m * 2^e.  *)
(* Every arithmetic operation computes the exact result on bit sequences   *)
(* and rounds it to nearest, ties to even, as the hardware does.           *)
(* Exponent range limits (overflow, subnormals) and NaN are not modelled:  *)
(* the temperatures of the model stay far inside the normal range.         *)
(***************************************************************************)
EXTENDS Integers, Sequences, FiniteSets, TLC

\* width of the significand of a Python float (binary64)
MantBits == 53

Max2(a, b) == IF a >= b THEN a ELSE b
Min2(a, b) == IF a <= b THEN a ELSE b

----------------------------------------------------------------------------
(* Natural numbers of arbitrary size as bit sequences, most significant    *)
(* bit first.  The recursions split the index range in halves, so that     *)
(* their depth is logarithmic in the number of bits.                       *)

Zeros(k) == [i \in 1..k |-> 0]

\* b without its leading zeros
Trim(b) ==
    IF \A i \in 1..Len(b) : b[i] = 0 THEN <<>>
    ELSE LET k == CHOOSE i \in 1..Len(b) : b[i] = 1 /\ \A j \in 1..(i - 1) : b[j] = 0
         IN  SubSeq(b, k, Len(b))

PadLeft(b, n) == Zeros(n - Len(b)) \o b

\* number of bits of the natural number n (n < 2^30)
BitLength(n) == CHOOSE k \in 0..30 : n < 2^k /\ (k = 0 \/ 2^(k - 1) <= n)

\* the bits of the natural number n
IntBits(n) == LET w == BitLength(n) IN [i \in 1..w |-> (n \div 2^(w - i)) % 2]

\* the number with the bits b[lo..hi]
RECURSIVE BitsIntRange(_, _, _)
BitsIntRange(b, lo, hi) ==
    IF lo > hi THEN 0
    ELSE IF lo = hi THEN b[lo]
    ELSE LET mid == (lo + hi) \div 2
         IN  BitsIntRange(b, lo, mid) * 2^(hi - mid) + BitsIntRange(b, mid + 1, hi)

BitsInt(b) == BitsIntRange(b, 1, Len(b))

\* a[lo..hi] + b[lo..hi] + c as <<carry out, bits lo..hi>>
RECURSIVE AddRange(_, _, _, _, _)
AddRange(a, b, lo, hi, c) ==
    IF lo > hi THEN <<c, <<>>>>
    ELSE IF lo = hi
    THEN LET t == a[lo] + b[lo] + c IN <<t \div 2, <<t % 2>>>>
    ELSE LET mid == (lo + hi) \div 2
             low == AddRange(a, b, mid + 1, hi, c)
             high == IF low[1] = 0 THEN AddRange(a, b, lo, mid, 0)
                                   ELSE AddRange(a, b, lo, mid, 1)
         IN  <<high[1], high[2] \o low[2]>>

\* a + b for a and b of equal length n, as n + 1 bits
AddBits(a, b) == LET WithCarry(r) == <<r[1]>> \o r[2]
                 IN  WithCarry(AddRange(a, b, 1, Len(a), 0))

BAdd(a, b) == LET n == Max2(Len(a), Len(b))
              IN  Trim(AddBits(PadLeft(a, n), PadLeft(b, n)))

\* a[lo..hi] - b[lo..hi] - c as <<borrow out, bits lo..hi>>
RECURSIVE SubRange(_, _, _, _, _)
SubRange(a, b, lo, hi, c) ==
    IF lo > hi THEN <<c, <<>>>>
    ELSE IF lo = hi
    THEN LET t == a[lo] - b[lo] - c IN IF t < 0 THEN <<1, <<t + 2>>>> ELSE <<0, <<t>>>>
    ELSE LET mid == (lo + hi) \div 2
             low == SubRange(a, b, mid + 1, hi, c)
             high == IF low[1] = 0 THEN SubRange(a, b, lo, mid, 0)
                                   ELSE SubRange(a, b, lo, mid, 1)
         IN  <<high[1], high[2] \o low[2]>>

\* a - b for a >= b
BSub(a, b) == LET n == Max2(Len(a), Len(b))
              IN  Trim(SubRange(PadLeft(a, n), PadLeft(b, n), 1, n, 0)[2])

\* a < b, for trimmed a and b
BLess(a, b) ==
    \/ Len(a) < Len(b)
    \/ /\ Len(a) = Len(b)
       /\ \E k \in 1..Len(a) :
             /\ a[k] < b[k]
             /\ \A j \in 1..(k - 1) : a[j] = b[j]

\* a times the number b[lo..hi]
RECURSIVE MulRange(_, _, _, _)
MulRange(a, b, lo, hi) ==
    IF lo > hi THEN <<>>
    ELSE IF lo = hi THEN (IF b[lo] = 1 THEN a ELSE <<>>)
    ELSE LET mid == (lo + hi) \div 2
             high == MulRange(a, b, lo, mid)
             low == MulRange(a, b, mid + 1, hi)
         IN  IF high = <<>> THEN low ELSE BAdd(high \o Zeros(hi - mid), low)

BMul(a, b) == MulRange(a, b, 1, Len(b))

\* long division: brings down the bits d[lo..hi] onto the running remainder
\* r and divides by the trimmed divisor v: <<quotient bits, remainder>>
RECURSIVE DivRange(_, _, _, _, _)
DivRange(d, v, lo, hi, r) ==
    IF lo > hi THEN <<<<>>, r>>
    ELSE IF lo = hi
    THEN LET r1 == Trim(Append(r, d[lo]))
         IN  IF BLess(r1, v) THEN <<<<0>>, r1>> ELSE <<<<1>>, BSub(r1, v)>>
    ELSE LET mid == (lo + hi) \div 2
             high == DivRange(d, v, lo, mid, r)
             low == DivRange(d, v, mid + 1, hi, high[2])
         IN  <<high[1] \o low[1], low[2]>>

\* number of trailing zero bits of a trimmed, non-empty bit sequence
TrailingZeros(b) ==
    CHOOSE k \in 0..(Len(b) - 1) :
        b[Len(b) - k] = 1 /\ \A j \in 0..(k - 1) : b[Len(b) - j] = 0

----------------------------------------------------------------------------
(* binary64 arithmetic                                                     *)

FZero(s) == [s |-> s, m |-> <<>>, e |-> 0]

IsZero(x) == x.m = <<>>

\* the float nearest to (-1)^s * b * 2^e, ties to even; sticky says that the
\* exact value has further non-zero bits below the last bit of b
FRound(s, b0, e, sticky) ==
    LET Normal(k1, e1) ==
            IF k1[1] = 1 THEN [s |-> s, m |-> SubSeq(k1, 1, MantBits), e |-> e1 + 1]
                         ELSE [s |-> s, m |-> Tail(k1), e |-> e1]
        Nearest(b) ==
            IF b = <<>> THEN FZero(s)
            ELSE IF Len(b) <= MantBits
            THEN [s |-> s, m |-> b \o Zeros(MantBits - Len(b)), e |-> e - (MantBits - Len(b))]
            ELSE LET rest == sticky \/ \E i \in (MantBits + 2)..Len(b) : b[i] = 1
                     up   == b[MantBits + 1] = 1 /\ (rest \/ b[MantBits] = 1)
                 IN  Normal(IF up THEN AddBits(SubSeq(b, 1, MantBits),
                                               Zeros(MantBits - 1) \o <<1>>)
                                  ELSE <<0>> \o SubSeq(b, 1, MantBits),
                            e + Len(b) - MantBits)
    IN  Nearest(Trim(b0))

\* float(n) for an int n
FromInt(n) == FRound(IF n < 0 THEN 1 ELSE 0, IntBits(IF n < 0 THEN -n ELSE n), 0, FALSE)

FNeg(x) == [x EXCEPT !.s = 1 - x.s]

FAbs(x) == [x EXCEPT !.s = 0]

\* |x| < |y|
MagLess(x, y) ==
    IF IsZero(y) THEN FALSE
    ELSE IF IsZero(x) THEN TRUE
    ELSE x.e < y.e \/ (x.e = y.e /\ BLess(x.m, y.m))

\* x < y and x == y as Python compares floats (0.0 == -0.0)
FLess(x, y) ==
    IF IsZero(x) /\ IsZero(y) THEN FALSE
    ELSE IF IsZero(x) THEN y.s = 0
    ELSE IF IsZero(y) THEN x.s = 1
    ELSE IF x.s # y.s THEN x.s = 1
    ELSE IF x.s = 0 THEN MagLess(x, y) ELSE MagLess(y, x)

FEq(x, y) == (IsZero(x) /\ IsZero(y)) \/ x = y

FLeq(x, y) == FLess(x, y) \/ FEq(x, y)

\* x + y
FAdd(x, y) ==
    IF IsZero(x) /\ IsZero(y) THEN FZero(IF x.s = 1 /\ y.s = 1 THEN 1 ELSE 0)
    ELSE IF IsZero(x) THEN y
    ELSE IF IsZero(y) THEN x
    ELSE LET e0 == Min2(x.e, y.e)
             Aligned(bx, by) ==
                 IF x.s = y.s THEN FRound(x.s, BAdd(bx, by), e0, FALSE)
                 ELSE IF bx = by THEN FZero(0)
                 ELSE IF BLess(bx, by) THEN FRound(y.s, BSub(by, bx), e0, FALSE)
                 ELSE FRound(x.s, BSub(bx, by), e0, FALSE)
         IN  Aligned(x.m \o Zeros(x.e - e0), y.m \o Zeros(y.e - e0))

\* x - y
FSub(x, y) == FAdd(x, FNeg(y))

\* the exact product x * y as <<sign, bits, exponent>>
ExactMul(x, y) ==
    LET s == IF x.s = y.s THEN 0 ELSE 1 IN
    IF IsZero(x) \/ IsZero(y) THEN <<s, <<>>, 0>>
    ELSE LET Odd(m) == SubSeq(m, 1, MantBits - TrailingZeros(m))
             Product(ax, ay) ==
                 <<s, IF Len(ax) >= Len(ay) THEN BMul(ax, ay) ELSE BMul(ay, ax),
                   x.e + (MantBits - Len(ax)) + y.e + (MantBits - Len(ay))>>
         IN  Product(Odd(x.m), Odd(y.m))

\* x * y
FMul(x, y) == LET Rounded(p) == FRound(p[1], p[2], p[3], FALSE)
              IN  Rounded(ExactMul(x, y))

\* number of quotient bits computed beyond the dividend's own bits
DivExtra == MantBits + 3

\* x / y for y # 0: long division by the significand of y without its
\* trailing zeros, which only shifts the exponent
FDiv(x, y) ==
    LET s == IF x.s = y.s THEN 0 ELSE 1 IN
    IF IsZero(x) THEN FZero(s)
    ELSE LET Rounded(qr, zy) ==
                 FRound(s, qr[1], x.e - DivExtra - (y.e + zy), qr[2] # <<>>)
             Quotient(v) ==
                 Rounded(DivRange(x.m \o Zeros(DivExtra), v, 1, MantBits + DivExtra, <<>>),
                         MantBits - Len(v))
         IN  Quotient(SubSeq(y.m, 1, MantBits - TrailingZeros(y.m)))

----------------------------------------------------------------------------
(* Python built-ins on floats                                              *)

\* the integer nearest to the exact value of |x| * 10, and whether that value
\* lies exactly half-way between two integers: <<floor, tie, above half>>
TenthsParts(x) ==
    LET Fraction(ip, fr, rest) == <<ip, fr[1] = 1 /\ ~rest, fr[1] = 1 /\ rest>>
        Parts(b, k) ==
            IF k <= 0 THEN <<BitsInt(b \o Zeros(-k)), FALSE, FALSE>>
            ELSE Fraction(IF k >= Len(b) THEN 0 ELSE BitsInt(SubSeq(b, 1, Len(b) - k)),
                          IF k > Len(b) THEN Zeros(k - Len(b)) \o b
                                        ELSE SubSeq(b, Len(b) - k + 1, Len(b)),
                          \E i \in 2..k : b[Len(b) - k + i] = 1)
        Split(p) == Parts(p[2], -p[3])
    IN  Split(ExactMul(x, FromInt(10)))

\* the float nearest to the decimal d / 10 (string -> float conversion of a
\* one-decimal numeral), carrying the sign s when d = 0
FromTenths(s, d) ==
    IF d = 0 THEN FZero(s)
    ELSE FDiv(FromInt(IF s = 1 THEN -d ELSE d), FromInt(10))

\* round(x, 1): the exact binary value of x is rounded to one decimal place,
\* an exact tie going to the even digit, and the decimal result is converted
\* back to the nearest float
round(x) ==
    LET Nearest(t) == IF t[3] \/ (t[2] /\ t[1] % 2 = 1) THEN t[1] + 1 ELSE t[1]
    IN  FromTenths(x.s, Nearest(TenthsParts(x)))

\* sum(numbers) of a non-empty list of floats: the int 0 plus the first item,
\* then compensated (Neumaier) summation of the remaining items
RECURSIVE SumFrom(_, _, _, _)
SumFrom(numbers, i, f_result, c) ==
    IF i > Len(numbers)
    THEN (IF IsZero(c) THEN f_result ELSE FAdd(f_result, c))
    ELSE LET x == numbers[i]
             Step(t) ==
                 SumFrom(numbers, i + 1, t,
                         IF ~MagLess(f_result, x)
                         THEN FAdd(c, FAdd(FSub(f_result, t), x))
                         ELSE FAdd(c, FAdd(FSub(x, t), f_result)))
         IN  Step(FAdd(f_result, x))

sum(numbers) == SumFrom(numbers, 2, FAdd(FromInt(0), numbers[1]), FZero(0))

\* min(temps) and max(temps) of a non-empty list: the first smallest / largest
min(temps) ==
    temps[CHOOSE i \in 1..Len(temps) :
            /\ \A j \in 1..Len(temps) : ~FLess(temps[j], temps[i])
            /\ \A j \in 1..(i - 1) : FLess(temps[i], temps[j])]

max(temps) ==
    temps[CHOOSE i \in 1..Len(temps) :
            /\ \A j \in 1..Len(temps) : ~FLess(temps[i], temps[j])
            /\ \A j \in 1..(i - 1) : FLess(temps[j], temps[i])]

\* a list comprehension [e for i in ...]: the list of the values f[1], ...,
\* f[n], each computed once, when the list is built
List(f) == <<>> \o f

\* a Python int n; a Python float is a binary64 record
PyInt(n) == [int |-> n]

\* float(value) for an int or a float
float(value) == IF "int" \in DOMAIN value THEN FromInt(value.int) ELSE value

\* str(x) of a float x that is the float nearest to a one-decimal numeral
\* (every float the reports format is one: a result of round(., 1)); the
\* shortest numeral that converts back to x
str(x) ==
    LET Numeral(d) ==
            (IF x.s = 1 THEN "-" ELSE "") \o ToString(d \div 10) \o "." \o ToString(d % 10)
        Nearest(t) == IF t[3] THEN t[1] + 1 ELSE t[1]
    IN  Numeral(Nearest(TenthsParts(x)))

\* an exception leaving a function, and a normal return
Raise(e) == [exc |-> e, val |-> <<>>]
Return(v) == [exc |-> "none", val |-> v]

(* datetime.fromisoformat on a string given as its sequence of characters, *)
(* for strings of the shape the record source supplies (at most ten        *)
(* characters, digits and "-"); the week and time-of-day forms of ISO 8601 *)
(* are outside the modelled inputs.                                        *)
DigitVal == [c \in {"0", "1", "2", "3", "4", "5", "6", "7", "8", "9"} |->
                CASE c = "0" -> 0 [] c = "1" -> 1 [] c = "2" -> 2 [] c = "3" -> 3
                  [] c = "4" -> 4 [] c = "5" -> 5 [] c = "6" -> 6 [] c = "7" -> 7
                  [] c = "8" -> 8 [] c = "9" -> 9]

IsLeap(y) == y % 4 = 0 /\ (y % 100 # 0 \/ y % 400 = 0)

DaysInMonth(y, m) ==
    IF m = 2 THEN (IF IsLeap(y) THEN 29 ELSE 28)
    ELSE IF m \in {4, 6, 9, 11} THEN 30 ELSE 31

RECURSIVE DaysBeforeMonth(_, _)
DaysBeforeMonth(y, m) ==
    IF m = 1 THEN 0 ELSE DaysBeforeMonth(y, m - 1) + DaysInMonth(y, m - 1)

\* proleptic Gregorian ordinal of a date, 0001-01-01 being day 1
Ordinal(y, m, d) ==
    (y - 1) * 365 + (y - 1) \div 4 - (y - 1) \div 100 + (y - 1) \div 400
      + DaysBeforeMonth(y, m) + d

fromisoformat(iso_string) ==
    IF ~ /\ Len(iso_string) = 10
         /\ iso_string[5] = "-" /\ iso_string[8] = "-"
         /\ \A i \in {1, 2, 3, 4, 6, 7, 9, 10} : iso_string[i] \in DOMAIN DigitVal
    THEN Raise("ValueError")
    ELSE LET dv(i) == DigitVal[iso_string[i]]
             y == 1000 * dv(1) + 100 * dv(2) + 10 * dv(3) + dv(4)
             m == 10 * dv(6) + dv(7)
             d == 10 * dv(9) + dv(10)
         IN  IF y < 1 \/ m < 1 \/ m > 12 THEN Raise("ValueError")
             ELSE IF d < 1 \/ d > DaysInMonth(y, m) THEN Raise("ValueError")
             ELSE Return([year |-> y, month |-> m, day |-> d])

WeekdayName == <<"Monday", "Tuesday", "Wednesday", "Thursday", "Friday",
                 "Saturday", "Sunday">>

MonthName == <<"January", "February", "March", "April", "May", "June", "July",
               "August", "September", "October", "November", "December">>

\* strftime("%A %d %B %Y")
strftime(dt) ==
    WeekdayName[((Ordinal(dt.year, dt.month, dt.day) + 6) % 7) + 1]
      \o " " \o (IF dt.day < 10 THEN "0" ELSE "") \o ToString(dt.day)
      \o " " \o MonthName[dt.month] \o " " \o ToString(dt.year)

----------------------------------------------------------------------------
(* weather.py                                                              *)

DEGREE_SYMBOL == "°C"

format_temperature(temp) == str(temp) \o DEGREE_SYMBOL

\* convert_date swallowing the error of a date that does not parse
convert_date_lenient(iso_string) ==
    LET iso_readable == fromisoformat(iso_string)
    IN  IF iso_readable.exc # "none" THEN Return("Invalid date")
        ELSE Return(strftime(iso_readable.val))

\* returns the formatted date, or raises the ValueError of fromisoformat
convert_date(iso_string) ==
    LET iso_readable == fromisoformat(iso_string)
    IN  IF iso_readable.exc # "none" THEN iso_readable
        ELSE Return(strftime(iso_readable.val))

\* the conversion with a mistyped divisor, 8.0 for 9.0
temp_in_celsius_by_8(temp_in_fahrenheit) ==
    FDiv(FMul(FSub(float(temp_in_fahrenheit), FromInt(32)), FromInt(5)), FromInt(8))

\* the conversion with a mistyped factor, 0.5 for 5.0
temp_in_celsius_half(temp_in_fahrenheit) ==
    FDiv(FMul(FSub(float(temp_in_fahrenheit), FromInt(32)), FDiv(FromInt(5), FromInt(10))),
         FromInt(9))

\* (temp_in_fahrenheit - 32) * 5.0 / 9.0, before rounding
temp_in_celsius(temp_in_fahrenheit) ==
    FDiv(FMul(FSub(float(temp_in_fahrenheit), FromInt(32)), FromInt(5)), FromInt(9))

convert_f_to_c(temp_in_fahrenheit) == round(temp_in_celsius(temp_in_fahrenheit))

\* calculate_mean dividing by one more than the number of elements
calculate_mean_off_by_one(weather_data) ==
    IF weather_data = <<>> THEN FZero(0)
    ELSE LET numbers == List([i \in 1..Len(weather_data) |-> float(weather_data[i])])
         IN  FDiv(sum(numbers), FromInt(Len(numbers) + 1))

calculate_mean(weather_data) ==
    IF weather_data = <<>> THEN FZero(0)
    ELSE LET numbers == List([i \in 1..Len(weather_data) |-> float(weather_data[i])])
         IN  FDiv(sum(numbers), FromInt(Len(numbers)))

\* what a function returns when it runs off its end
None == <<"None">>

\* find_min returning the first occurrence of the minimum
find_min_first(weather_data) ==
    IF weather_data = <<>> THEN <<>>
    ELSE LET temps_float == List([i \in 1..Len(weather_data) |-> float(weather_data[i])])
             min_value == min(temps_float)
             hits == {i \in 0..(Len(temps_float) - 1) : FEq(temps_float[i + 1], min_value)}
         IN  <<min_value, CHOOSE i \in hits : \A j \in hits : i <= j>>

\* find_max returning the first occurrence of the maximum
find_max_first(weather_data) ==
    IF weather_data = <<>> THEN <<>>
    ELSE LET temps_float == List([i \in 1..Len(weather_data) |-> float(weather_data[i])])
             max_value == max(temps_float)
             hits == {num \in 0..(Len(temps_float) - 1) : FEq(temps_float[num + 1], max_value)}
         IN  <<max_value, CHOOSE num \in hits : \A j \in hits : num <= j>>

\* indices are Python's: the first element has index 0
find_min(weather_data) ==
    IF weather_data = <<>> THEN <<>>
    ELSE LET temps_float == List([i \in 1..Len(weather_data) |-> float(weather_data[i])])
             min_value == min(temps_float)
             hits == {i \in 0..(Len(temps_float) - 1) : FEq(temps_float[i + 1], min_value)}
         IN  IF hits = {} THEN None
             ELSE <<min_value, CHOOSE i \in hits : \A j \in hits : j <= i>>

find_max(weather_data) ==
    IF weather_data = <<>> THEN <<>>
    ELSE LET temps_float == List([i \in 1..Len(weather_data) |-> float(weather_data[i])])
             max_value == max(temps_float)
             hits == {num \in 0..(Len(temps_float) - 1) : FEq(temps_float[num + 1], max_value)}
         IN  IF hits = {} THEN None
             ELSE <<max_value, CHOOSE num \in hits : \A j \in hits : j <= num>>

(* A text is the sequence of its pieces: the literal fragments of the      *)
(* f-string templates, the interpolated values and the newline "\n".  A    *)
(* day is the list [date, min, max] as <<date, min, max>>.  The report     *)
(* functions return [exc, val, calls]: the exception raised or "none", the *)
(* text, and the set of helper functions they called.                      *)

\* the two list comprehensions over the days
min_temps(weather_data) ==
    List([i \in 1..Len(weather_data) |-> convert_f_to_c(weather_data[i][2])])

\* max_temps reading the low of each day, a copy of the line above it
max_temps_of_lows(weather_data) ==
    List([i \in 1..Len(weather_data) |-> convert_f_to_c(weather_data[i][2])])

max_temps(weather_data) ==
    List([i \in 1..Len(weather_data) |-> convert_f_to_c(weather_data[i][3])])

generate_summary(weather_data) ==
    IF weather_data = <<>>
    THEN [exc |-> "none", val |-> <<"No weather data available.", "\n">>, calls |-> {}]
    ELSE LET num_days == Len(weather_data)
             called == {"convert_f_to_c", "find_min", "find_max", "convert_date"}
             \* the dates are converted, then the means computed and the text built
             summary(min_temp, min_date, max_temp, max_date, avg_low, avg_high) ==
                 IF min_date.exc # "none"
                 THEN [exc |-> min_date.exc, val |-> <<>>, calls |-> called]
                 ELSE IF max_date.exc # "none"
                 THEN [exc |-> max_date.exc, val |-> <<>>, calls |-> called]
                 ELSE [exc |-> "none",
                       val |-> << ToString(num_days), " Day Overview", "\n",
                                  "  The lowest temperature will be ",
                                  format_temperature(min_temp),
                                  ", and will occur on ", min_date.val, ".", "\n",
                                  "  The highest temperature will be ",
                                  format_temperature(max_temp),
                                  ", and will occur on ", max_date.val, ".", "\n",
                                  "  The average low this week is ",
                                  format_temperature(round(avg_low)), ".", "\n",
                                  "  The average high this week is ",
                                  format_temperature(round(avg_high)), ".", "\n" >>,
                       calls |-> called \cup {"calculate_mean", "format_temperature"}]
             \* lowest = (min_temp, min_index), highest = (max_temp, max_index)
             extremes(lows, highs, lowest, highest) ==
                 summary(lowest[1], convert_date(weather_data[lowest[2] + 1][1]),
                         highest[1], convert_date(weather_data[highest[2] + 1][1]),
                         calculate_mean(lows), calculate_mean(highs))
             lists(lows, highs) == extremes(lows, highs, find_min(lows), find_max(highs))
         IN  lists(min_temps(weather_data), max_temps(weather_data))

\* the join with an empty separator
RECURSIVE JoinFromNoSeparator(_, _)
JoinFromNoSeparator(lines, i) ==
    IF i > Len(lines) THEN <<>>
    ELSE lines[i] \o JoinFromNoSeparator(lines, i + 1)

\* "\n".join(lines[i..])
RECURSIVE JoinFrom(_, _)
JoinFrom(lines, i) ==
    IF i > Len(lines) THEN <<>>
    ELSE IF i = Len(lines) THEN lines[i]
    ELSE lines[i] \o <<"\n">> \o JoinFrom(lines, i + 1)

\* the block with the high on the line before the low
daily_summary_swapped(date, day) ==
    LET min_c == format_temperature(convert_f_to_c(day[2]))
        max_c == format_temperature(convert_f_to_c(day[3]))
    IN  << "---- ", date, " ----", "\n",
           "  Maximum Temperature: ", max_c, "\n",
           "  Minimum Temperature: ", min_c, "\n" >>

\* the three-line block of one day, given its formatted date
daily_summary(date, day) ==
    LET min_c == format_temperature(convert_f_to_c(day[2]))
        max_c == format_temperature(convert_f_to_c(day[3]))
    IN  << "---- ", date, " ----", "\n",
           "  Minimum Temperature: ", min_c, "\n",
           "  Maximum Temperature: ", max_c, "\n" >>

\* the loop over weather_data[i..]: the blocks appended to summary_lines, or
\* the exception that ends the loop
RECURSIVE DailyLoop(_, _, _)
DailyLoop(weather_data, i, summary_lines) ==
    IF i > Len(weather_data) THEN Return(summary_lines)
    ELSE LET day == weather_data[i]
             date == convert_date(day[1])
         IN  IF date.exc # "none" THEN Raise(date.exc)
             ELSE DailyLoop(weather_data, i + 1,
                            Append(summary_lines, daily_summary(date.val, day)))

\* generate_daily_summary for a non-empty weather_data
daily_report(weather_data) ==
    LET joined(loop) ==
            IF loop.exc # "none"
            THEN [exc |-> loop.exc, val |-> <<>>,
                  calls |-> IF fromisoformat(weather_data[1][1]).exc # "none"
                            THEN {"convert_date"}
                            ELSE {"convert_date", "convert_f_to_c", "format_temperature"}]
            ELSE [exc |-> "none", val |-> JoinFrom(loop.val, 1) \o <<"\n">>,
                  calls |-> {"convert_date", "convert_f_to_c", "format_temperature"}]
    IN  joined(DailyLoop(weather_data, 1, <<>>))

\* generate_daily_summary with the message of generate_summary pasted in
generate_daily_summary_pasted(weather_data) ==
    IF weather_data = <<>>
    THEN [exc |-> "none", val |-> <<"No weather data available.", "\n">>, calls |-> {}]
    ELSE daily_report(weather_data)

generate_daily_summary(weather_data) ==
    IF weather_data = <<>>
    THEN [exc |-> "none", val |-> <<"No daily weather data available.", "\n">>, calls |-> {}]
    ELSE daily_report(weather_data)

----------------------------------------------------------------------------
(* The program as a state machine.  Its functions are pure: a state holds  *)
(* the argument a caller supplies (a list of Fahrenheit readings, a list   *)
(* of numbers, or a list of days), the function called last and what it    *)
(* returned.                                                               *)

VARIABLES fn, temps, numbers, weather_data, ret

vars == <<fn, temps, numbers, weather_data, ret>>

\* range of the Fahrenheit readings, longest list of numbers, longest series
FahrenheitMin == 20
FahrenheitMax == 45
MaxLen == 3
MaxDays == 3

ListsUpTo(S, n) == UNION {[1..k -> S] : k \in 0..n}

Readings == {PyInt(f) : f \in FahrenheitMin..FahrenheitMax}

\* Celsius temperatures as the converter returns them, and an int
Numbers == {convert_f_to_c(PyInt(f)) : f \in {26, 33, 34}} \cup {PyInt(1)}

\* days as load_data_from_csv returns them; the dates of the last two are not
\* calendar dates
Days ==
    { << <<"2","0","2","1","-","0","7","-","0","5">>, PyInt(34), PyInt(68) >>,
      << <<"2","0","2","1","-","0","7","-","0","6">>, PyInt(39), PyInt(77) >>,
      << <<"2","0","2","1","-","0","7","-","0","7">>, PyInt(34), PyInt(77) >>,
      << <<"2","0","2","1","-","0","2","-","2","9">>, PyInt(36), PyInt(70) >>,
      << <<"2","0","2","1","-","1","3","-","0","1">>, PyInt(26), PyInt(80) >> }

InitConv ==
    /\ fn = "none" /\ ret = <<>>
    /\ temps \in [1..2 -> Readings]
    /\ numbers = <<>> /\ weather_data = <<>>

InitStats ==
    /\ fn = "none" /\ ret = <<>>
    /\ numbers \in ListsUpTo(Numbers, MaxLen)
    /\ temps = <<>> /\ weather_data = <<>>

InitReport ==
    /\ fn = "none" /\ ret = <<>>
    /\ weather_data \in ListsUpTo(Days, MaxDays)
    /\ temps = <<>> /\ numbers = <<>>

\* readings to convert, or a series to summarise
InitTemps == InitConv \/ InitReport

Init == InitConv \/ InitStats \/ InitReport

\* [convert_f_to_c(t) for t in temps]
ConvertFToC ==
    /\ fn' = "convert_f_to_c"
    /\ ret' = List([i \in 1..Len(temps) |-> convert_f_to_c(temps[i])])
    /\ UNCHANGED <<temps, numbers, weather_data>>

CalculateMean ==
    /\ fn' = "calculate_mean"
    /\ ret' = calculate_mean(numbers)
    /\ UNCHANGED <<temps, numbers, weather_data>>

FindMin ==
    /\ fn' = "find_min"
    /\ ret' = find_min(numbers)
    /\ UNCHANGED <<temps, numbers, weather_data>>

FindMax ==
    /\ fn' = "find_max"
    /\ ret' = find_max(numbers)
    /\ UNCHANGED <<temps, numbers, weather_data>>

GenerateSummary ==
    /\ fn' = "generate_summary"
    /\ ret' = generate_summary(weather_data)
    /\ UNCHANGED <<temps, numbers, weather_data>>

GenerateDailySummary ==
    /\ fn' = "generate_daily_summary"
    /\ ret' = generate_daily_summary(weather_data)
    /\ UNCHANGED <<temps, numbers, weather_data>>

NextConv == ConvertFToC
NextStats == CalculateMean \/ FindMin \/ FindMax
NextReport == GenerateSummary \/ GenerateDailySummary
NextTemps == ConvertFToC \/ GenerateSummary

Next == ConvertFToC \/ CalculateMean \/ FindMin \/ FindMax
          \/ GenerateSummary \/ GenerateDailySummary

Spec == Init /\ [][Next]_vars
SpecConv == InitConv /\ [][NextConv]_vars
SpecStats == InitStats /\ [][NextStats]_vars
SpecReport == InitReport /\ [][NextReport]_vars
SpecTemps == InitTemps /\ [][NextTemps]_vars

----------------------------------------------------------------------------
(* Properties                                                              *)

Floats(list) == List([i \in 1..Len(list) |-> float(list[i])])

\* C1: find_min of a non-empty list returns a pair (m, i): m is the smallest
\* element, the element at index i is m and no later element is m; a single
\* element gives index 0; the empty list gives the empty tuple.
C1_FindMinLast ==
    fn = "find_min" =>
        IF numbers = <<>> THEN ret = <<>>
        ELSE LET xs == Floats(numbers) IN
             /\ Len(ret) = 2
             /\ ret[2] \in 0..(Len(xs) - 1)
             /\ FEq(xs[ret[2] + 1], ret[1])
             /\ \A j \in 1..Len(xs) : ~FLess(xs[j], ret[1])
             /\ \A j \in (ret[2] + 2)..Len(xs) : ~FEq(xs[j], ret[1])
             /\ (Len(xs) = 1 => ret = <<xs[1], 0>>)

\* the minimum occurs at the first and at the last index of three
C1_Witness ==
    /\ fn = "find_min" /\ Len(numbers) = 3
    /\ FEq(float(numbers[1]), float(numbers[3]))
    /\ FLess(float(numbers[1]), float(numbers[2]))
    /\ ret[2] = 2

\* C2: find_max of a non-empty list returns a pair (m, i): m is the largest
\* element, the element at index i is m and no later element is m; the empty
\* list gives the empty tuple.
C2_FindMaxLast ==
    fn = "find_max" =>
        IF numbers = <<>> THEN ret = <<>>
        ELSE LET xs == Floats(numbers) IN
             /\ Len(ret) = 2
             /\ ret[2] \in 0..(Len(xs) - 1)
             /\ FEq(xs[ret[2] + 1], ret[1])
             /\ \A j \in 1..Len(xs) : ~FLess(ret[1], xs[j])
             /\ \A j \in (ret[2] + 2)..Len(xs) : ~FEq(xs[j], ret[1])

\* the maximum occurs at the last two indices of three
C2_Witness ==
    /\ fn = "find_max" /\ Len(numbers) = 3
    /\ FEq(float(numbers[2]), float(numbers[3]))
    /\ FLess(float(numbers[1]), float(numbers[2]))
    /\ ret[2] = 2

\* the pieces of a text that open a day block
Headers(text) == {i \in 1..Len(text) : text[i] = "---- "}

\* blocks of a daily summary: the text starts with a block, every later block
\* comes after exactly one blank line, and no other line is blank except
\* possibly the last
BlankLineBetweenBlocks(text) ==
    /\ 1 \in Headers(text)
    /\ \A h \in Headers(text) :
          h > 1 => text[h - 1] = "\n" /\ text[h - 2] = "\n" /\ text[h - 3] # "\n"
    /\ \A i \in 1..(Len(text) - 2) :
          text[i] = "\n" /\ text[i + 1] = "\n" => (i + 2) \in Headers(text)

DailyReturned ==
    fn = "generate_daily_summary" /\ weather_data # <<>> /\ ret.exc = "none"

\* C3 as stated: the daily summary of a non-empty series has exactly one
\* blank line between consecutive blocks, none before the first, and ends
\* with exactly one newline.
C3_Original ==
    DailyReturned =>
        /\ BlankLineBetweenBlocks(ret.val)
        /\ ret.val[Len(ret.val)] = "\n"
        /\ ret.val[Len(ret.val) - 1] # "\n"

\* C3 amended: the daily summary of a non-empty series has exactly one blank
\* line between consecutive blocks, none before the first, and ends with
\* exactly two newlines: one blank line follows the last block.
C3_TrailingBlankLine ==
    DailyReturned =>
        /\ BlankLineBetweenBlocks(ret.val)
        /\ Cardinality(Headers(ret.val)) = Len(weather_data)
        /\ ret.val[Len(ret.val)] = "\n"
        /\ ret.val[Len(ret.val) - 1] = "\n"
        /\ ret.val[Len(ret.val) - 2] # "\n"

C3_Witness == DailyReturned /\ Len(weather_data) = 3

InvalidDate(day) == fromisoformat(day[1]).exc # "none"

AllDatesValid == \A k \in 1..Len(weather_data) : ~InvalidDate(weather_data[k])

\* (1-based) index of the last smallest / largest element of a list of floats
LastLowest(xs) ==
    CHOOSE i \in 1..Len(xs) :
        /\ \A j \in 1..Len(xs) : ~FLess(xs[j], xs[i])
        /\ \A j \in (i + 1)..Len(xs) : FLess(xs[i], xs[j])

LastHighest(xs) ==
    CHOOSE i \in 1..Len(xs) :
        /\ \A j \in 1..Len(xs) : ~FLess(xs[i], xs[j])
        /\ \A j \in (i + 1)..Len(xs) : FLess(xs[j], xs[i])

ConvertedLows ==
    List([k \in 1..Len(weather_data) |-> convert_f_to_c(weather_data[k][2])])
ConvertedHighs ==
    List([k \in 1..Len(weather_data) |-> convert_f_to_c(weather_data[k][3])])

\* C4 as stated: if any day of a non-empty series, at any position, has a
\* date that is not a calendar date, generate_summary raises the parse error
\* and returns no text.
C4_Original ==
    (/\ fn = "generate_summary" /\ weather_data # <<>>
     /\ \E k \in 1..Len(weather_data) : InvalidDate(weather_data[k]))
    => ret.exc = "ValueError" /\ ret.val = <<>>

\* C4 amended: generate_summary parses only the date of the day with the
\* lowest low and of the day with the highest high (last occurrences): it
\* raises the parse error and returns no text exactly when one of these two
\* dates is not a calendar date; any other bad date goes unnoticed.
C4_ParsesTwoDates ==
    fn = "generate_summary" /\ weather_data # <<>> =>
        IF \/ InvalidDate(weather_data[LastLowest(ConvertedLows)])
           \/ InvalidDate(weather_data[LastHighest(ConvertedHighs)])
        THEN ret.exc = "ValueError" /\ ret.val = <<>>
        ELSE ret.exc = "none" /\ ret.val # <<>>

\* the summary fails on a series that also has a day with a good date
C4_Witness ==
    /\ fn = "generate_summary" /\ Len(weather_data) >= 2
    /\ ret.exc = "ValueError"
    /\ \E k \in 1..Len(weather_data) : ~InvalidDate(weather_data[k])

NoWeatherData == <<"No weather data available.", "\n">>
NoDailyWeatherData == <<"No daily weather data available.", "\n">>

\* C5: on an empty series generate_summary returns "No weather data
\* available.\n" and generate_daily_summary "No daily weather data
\* available.\n", without raising and without calling a helper; on a
\* non-empty series neither returns either text.
C5_EmptySeries ==
    /\ fn = "generate_summary" =>
          IF weather_data = <<>>
          THEN ret = [exc |-> "none", val |-> NoWeatherData, calls |-> {}]
          ELSE ret.val \notin {NoWeatherData, NoDailyWeatherData}
    /\ fn = "generate_daily_summary" =>
          IF weather_data = <<>>
          THEN ret = [exc |-> "none", val |-> NoDailyWeatherData, calls |-> {}]
          ELSE ret.val \notin {NoWeatherData, NoDailyWeatherData}

C5_Witness ==
    fn = "generate_daily_summary" /\ weather_data = <<>> /\ ret.val = NoDailyWeatherData

FormattedDate(day) == strftime(fromisoformat(day[1]).val)

\* C6: for a non-empty series with valid dates, the converted lows and highs
\* are aligned with the series, the date reported for the lowest temperature
\* is the date of the day at the index find_min returns for the converted
\* lows, and the date reported for the highest temperature is the date of
\* the day at the index find_max returns for the converted highs.
C6_DatesOfExtremes ==
    fn = "generate_summary" /\ weather_data # <<>> /\ AllDatesValid =>
        LET Aligned(lows, highs) ==
                /\ lows = min_temps(weather_data)
                /\ highs = max_temps(weather_data)
                /\ ret.val[7] = FormattedDate(weather_data[find_min(lows)[2] + 1])
                /\ ret.val[13] = FormattedDate(weather_data[find_max(highs)[2] + 1])
        IN  ret.exc = "none" /\ Aligned(ConvertedLows, ConvertedHighs)

\* the two dates come from different days
C6_Witness ==
    /\ fn = "generate_summary" /\ Len(weather_data) = 3 /\ AllDatesValid
    /\ ret.val[7] # ret.val[13]

\* C8: for a non-empty series with valid dates the daily summary has one
\* three-line block per day, in the order of the series; block k has the
\* formatted date, the converted low and the converted high of day k, the
\* low on the line before the high.
C8_BlockPerDay ==
    fn = "generate_daily_summary" /\ weather_data # <<>> /\ AllDatesValid =>
        /\ ret.exc = "none"
        /\ Headers(ret.val) = {11 * (k - 1) + 1 : k \in 1..Len(weather_data)}
        /\ \A k \in 1..Len(weather_data) :
              LET o == 11 * (k - 1)
                  day == weather_data[k]
              IN  /\ ret.val[o + 2] = FormattedDate(day)
                  /\ ret.val[o + 3] = " ----"
                  /\ ret.val[o + 4] = "\n"
                  /\ ret.val[o + 5] = "  Minimum Temperature: "
                  /\ ret.val[o + 6] = format_temperature(convert_f_to_c(day[2]))
                  /\ ret.val[o + 7] = "\n"
                  /\ ret.val[o + 8] = "  Maximum Temperature: "
                  /\ ret.val[o + 9] = format_temperature(convert_f_to_c(day[3]))
                  /\ ret.val[o + 10] = "\n"
                  /\ {i \in 1..10 : ret.val[o + i] = "\n"} = {4, 7, 10}

C8_Witness ==
    /\ fn = "generate_daily_summary" /\ Len(weather_data) = 3 /\ AllDatesValid
    /\ weather_data[1] # weather_data[2] /\ weather_data[2] # weather_data[3]

\* C7 as stated: calculate_mean returns 0.0 for the empty list and the sum
\* divided by the number of elements otherwise, so that the result lies
\* between the smallest and the largest element.
C7_Original ==
    fn = "calculate_mean" =>
        IF numbers = <<>> THEN ret = FZero(0)
        ELSE LET xs == Floats(numbers) IN
             /\ ret = FDiv(sum(xs), FromInt(Len(xs)))
             /\ \E i \in 1..Len(xs) : FLeq(xs[i], ret)
             /\ \E j \in 1..Len(xs) : FLeq(ret, xs[j])

\* C7 amended: calculate_mean returns 0.0 for the empty list and the float
\* sum divided by the number of elements otherwise; for one-decimal
\* temperatures the result lies between the smallest and the largest element
\* once rounded to one decimal place, as generate_summary rounds it, while
\* the unrounded float can lie just outside.
C7_MeanWithinRounding ==
    fn = "calculate_mean" =>
        IF numbers = <<>> THEN ret = FZero(0)
        ELSE LET xs == Floats(numbers) IN
             /\ ret = FDiv(sum(xs), FromInt(Len(xs)))
             /\ (Len(xs) = 1 => FEq(ret, xs[1]))
             /\ \E i \in 1..Len(xs) : FLeq(xs[i], round(ret))
             /\ \E j \in 1..Len(xs) : FLeq(round(ret), xs[j])

\* the mean of three temperatures lies above the largest of them
C7_Witness ==
    /\ fn = "calculate_mean" /\ Len(numbers) = 3
    /\ \A j \in 1..3 : FLess(float(numbers[j]), ret)

\* round(x, 1) with an exact tie going away from zero
round_half_away(x) ==
    LET Nearest(t) == IF t[3] \/ t[2] THEN t[1] + 1 ELSE t[1]
    IN  FromTenths(x.s, Nearest(TenthsParts(x)))

\* C9: for an integer reading f the exact value 10 * (f - 32) * 5 / 9 never
\* has the fractional part 1/2, neither has the float the code rounds, and
\* convert_f_to_c returns what it would return if ties were rounded away
\* from zero.
C9_NoRoundingTie ==
    fn = "convert_f_to_c" =>
        \A i \in 1..Len(temps) :
            /\ (100 * (temps[i].int - 32)) % 18 # 9
            /\ ~TenthsParts(temp_in_celsius(temps[i]))[2]
            /\ ret[i] = round_half_away(temp_in_celsius(temps[i]))

\* a reading below and a reading above the freezing point were converted
C9_Witness ==
    /\ fn = "convert_f_to_c" /\ Len(temps) = 2
    /\ temps[1].int < 32 /\ temps[2].int > 32
    /\ ret[1].s = 1 /\ ret[2].s = 0

\* (1-based) index of the last day with the lowest low_f / highest high_f
LastRawLow ==
    CHOOSE i \in 1..Len(weather_data) :
        /\ \A j \in 1..Len(weather_data) : weather_data[i][2].int <= weather_data[j][2].int
        /\ \A j \in (i + 1)..Len(weather_data) : weather_data[i][2].int < weather_data[j][2].int

LastRawHigh ==
    CHOOSE i \in 1..Len(weather_data) :
        /\ \A j \in 1..Len(weather_data) : weather_data[i][3].int >= weather_data[j][3].int
        /\ \A j \in (i + 1)..Len(weather_data) : weather_data[i][3].int > weather_data[j][3].int

\* C10: convert_f_to_c is strictly increasing on integer readings, and the
\* summary of a non-empty series reports, for the lowest temperature, the
\* date of the last day whose low_f is minimal and, for the highest, the
\* date of the last day whose high_f is maximal.
C10_Monotone ==
    /\ fn = "convert_f_to_c" =>
          \A i, j \in 1..Len(temps) :
              temps[i].int < temps[j].int => FLess(ret[i], ret[j])
    /\ fn = "generate_summary" /\ weather_data # <<>> /\ ret.exc = "none" =>
          /\ ret.val[7] = FormattedDate(weather_data[LastRawLow])
          /\ ret.val[13] = FormattedDate(weather_data[LastRawHigh])
          /\ LET Increasing(lows) ==
                     \A i, j \in 1..Len(weather_data) :
                         weather_data[i][2].int < weather_data[j][2].int
                           => FLess(lows[i], lows[j])
             IN  Increasing(ConvertedLows)

\* two days share the lowest low_f and the later one is reported
C10_Witness ==
    /\ fn = "generate_summary" /\ Len(weather_data) = 3 /\ ret.exc = "none"
    /\ weather_data[1][2] = weather_data[3][2]
    /\ weather_data[1][1] # weather_data[3][1]
    /\ LastRawLow = 3
    /\ ret.val[7] = FormattedDate(weather_data[3])

====
